---- MODULE Spec2Model ----
(***************************************************************************)
(* Control-transfer engine of endpoint 0 (firmware/lib/qusb/qusb_control.c) *)
(* and the RX side of the UART driver (firmware/include/uart.h).            *)
(*                                                                         *)
(* Every C function of qusb_control.c is an operator of the same name that *)
(* maps the device record to the device record after the call.  The field  *)
(* log of the record is a history field: it lists, in order, what the      *)
(* handler that is running has done so far (packets read and written,      *)
(* stalls, callbacks called, state assignments).                           *)
(*                                                                         *)
(* uart.h declares the UART driver and documents its operations; their     *)
(* bodies (uart.cpp) are modelled from that documentation and from the     *)
(* specification of the driver.                                            *)
(***************************************************************************)
EXTENDS Integers, Sequences, FiniteSets, TLC

(***************************************************************************)
(* Bounds of the model.                                                     *)
(***************************************************************************)
\* dev->desc->bMaxPacketSize0 (a field of the device descriptor)
MaxPacketSize0 == 2
\* dev->ctrl_buf_len, the capacity of the control data buffer
CtrlBufLen == 5
\* the largest wLength a device-to-host SETUP packet announces in Spec
MaxWLength == 4
\* the largest wLength a SETUP packet announces in SpecIn
MaxInWLength == 5
\* the largest length a request handler leaves in the length slot
MaxRespLen == 6
\* size of the callback table (its value is set in qusb_private.h)
MAX_USER_CONTROL_CALLBACK == 2
\* size of the RX ring buffer (1024 in uart.h; the index arithmetic is the
\* same for every size)
UART_RX_BUF_LEN == 4
\* the largest len passed to copy_rx_data
MaxCopyLen == 4

(***************************************************************************)
(* Program constants.                                                       *)
(***************************************************************************)
QUSB_REQ_TYPE_DIRECTION_MASK == 128
QUSB_REQ_TYPE_IN == 128
QUSB_REQ_SET_ADDRESS == 5
QUSB_REQ_NOTSUPP == 0
QUSB_REQ_HANDLED == 1
QUSB_REQ_NEXT_CALLBACK == 2
\* size of a SETUP packet
SetupLen == 8
\* uint16_t arithmetic wraps at 2^16
TwoPow16 == 65536

NULL == -1

States == {"IDLE", "DATA_IN", "LAST_DATA_IN", "STATUS_IN",
           "DATA_OUT", "LAST_DATA_OUT", "STATUS_OUT"}

VARIABLES
    dev,      \* the qusb_device: control_state, callback table, address, log
    event,    \* history: the handler that ran last, its inputs and what it found
    xfer,     \* history: what happened since the last SETUP event
    regs,     \* history: the registrations of a callback that returned 0, in order
    uart,     \* the uart_impl: RX ring buffer, its indices, the overrun latch
    rxh       \* history: the bytes received and not read, the last UART call

usbvars == <<dev, event, xfer, regs>>

uartvars == <<uart, rxh>>

vars == <<dev, event, xfer, regs, uart, rxh>>

(***************************************************************************)
(* Helpers.                                                                 *)
(***************************************************************************)
U16(x) == x % TwoPow16

min_u16(a, b) == IF U16(a) < U16(b) THEN U16(a) ELSE U16(b)

RECURSIVE BitAnd(_, _)
BitAnd(a, b) ==
    IF a = 0 \/ b = 0 THEN 0
    ELSE (a % 2) * (b % 2) + 2 * BitAnd(a \div 2, b \div 2)

Log(d, op, a, b) == [d EXCEPT !.log = Append(@, <<op, a, b>>)]

SetState(d, s) == Log([d EXCEPT !.state = s], s, 0, 0)

\* qusb_dev_ep_write_packet(dev, 0, buf, len)
ep_write_packet(d, buf, len) == Log(d, "write", buf, len)

\* qusb_dev_ep_read_packet(dev, 0, buf, maxlen): the size it returns, for a
\* received packet of rx bytes
ep_read_packet(rx, maxlen) == IF rx < maxlen THEN rx ELSE maxlen

(***************************************************************************)
(* qusb_dev_register_control_callback                                       *)
(***************************************************************************)
RECURSIVE register_from(_, _, _, _, _)
register_from(d, i, type, type_mask, callback) ==
    IF i > MAX_USER_CONTROL_CALLBACK THEN [d |-> d, ret |-> -1]
    ELSE IF d.user_control_callback[i].cb # NULL
         THEN register_from(d, i + 1, type, type_mask, callback)
         ELSE [d |-> [d EXCEPT !.user_control_callback[i] =
                          [type |-> type, type_mask |-> type_mask, cb |-> callback]],
               ret |-> 0]

\* mutant: the registration goes to the last free slot of the table
RECURSIVE register_from_end(_, _, _, _, _)
register_from_end(d, i, type, type_mask, callback) ==
    IF i < 1 THEN [d |-> d, ret |-> -1]
    ELSE IF d.user_control_callback[i].cb # NULL
         THEN register_from_end(d, i - 1, type, type_mask, callback)
         ELSE [d |-> [d EXCEPT !.user_control_callback[i] =
                          [type |-> type, type_mask |-> type_mask, cb |-> callback]],
               ret |-> 0]

qusb_dev_register_last_free(d, type, type_mask, callback) ==
    register_from_end(d, MAX_USER_CONTROL_CALLBACK, type, type_mask, callback)

\* mutant: a full table takes the registration in its last slot
qusb_dev_register_full_overwrites(d, type, type_mask, callback) ==
    LET r == register_from(d, 1, type, type_mask, callback)
    IN  IF r.ret = 0 THEN r
        ELSE [d |-> [d EXCEPT !.user_control_callback[MAX_USER_CONTROL_CALLBACK] =
                        [type |-> type, type_mask |-> type_mask, cb |-> callback]],
              ret |-> 0]

qusb_dev_register_control_callback(d, type, type_mask, callback) ==
    register_from(d, 1, type, type_mask, callback)

(***************************************************************************)
(* stall, send_data_in, read_data_out                                       *)
(***************************************************************************)
\* mutant: a stall leaves the state as it is
stall_keeps_state(d) == Log(d, "stall", 0, 0)

stall(d) == SetState(Log(d, "stall", 0, 0), "IDLE")

\* mutant: a zero-length packet follows every last packet of max size
send_data_in_zlp_after_full(d) ==
    LET max_packet_size == MaxPacketSize0
    IN  IF max_packet_size < d.ctrl_len
        THEN LET d1 == ep_write_packet(d, d.ctrl_buf, max_packet_size)
                 d2 == SetState(d1, "DATA_IN")
             IN  [d2 EXCEPT !.ctrl_buf = @ + max_packet_size,
                            !.ctrl_len = U16(@ - max_packet_size),
                            !.req.wLength = U16(@ - max_packet_size)]
        ELSE LET d1 == ep_write_packet(d, d.ctrl_buf, d.ctrl_len)
                 d2 == IF d.ctrl_len = max_packet_size
                       THEN SetState(d1, "DATA_IN")
                       ELSE SetState(d1, "LAST_DATA_IN")
             IN  [d2 EXCEPT !.ctrl_len = 0, !.ctrl_buf = NULL]

\* mutant: a partial chunk leaves the remaining length as it was
send_data_in_no_progress(d) ==
    LET max_packet_size == MaxPacketSize0
    IN  IF max_packet_size < d.ctrl_len
        THEN LET d1 == ep_write_packet(d, d.ctrl_buf, max_packet_size)
                 d2 == SetState(d1, "DATA_IN")
             IN  [d2 EXCEPT !.ctrl_buf = @ + max_packet_size,
                            !.req.wLength = U16(@ - max_packet_size)]
        ELSE LET d1 == ep_write_packet(d, d.ctrl_buf, d.ctrl_len)
                 d2 == IF d.ctrl_len = max_packet_size /\ d.ctrl_len < d.req.wLength
                       THEN SetState(d1, "DATA_IN")
                       ELSE SetState(d1, "LAST_DATA_IN")
             IN  [d2 EXCEPT !.ctrl_len = 0, !.ctrl_buf = NULL]

send_data_in(d) ==
    LET max_packet_size == MaxPacketSize0
    IN  IF max_packet_size < d.ctrl_len
        THEN \* partial chunk
             LET d1 == ep_write_packet(d, d.ctrl_buf, max_packet_size)
                 d2 == SetState(d1, "DATA_IN")
                 d3 == [d2 EXCEPT !.ctrl_buf = @ + max_packet_size,
                                  !.ctrl_len = U16(@ - max_packet_size),
                                  !.req.wLength = U16(@ - max_packet_size)]
             IN  IF d.req.wLength < max_packet_size
                 THEN Log(d3, "wrap", d.req.wLength, 0)
                 ELSE d3
        ELSE \* last data chunk and zero-length packet
             LET d1 == ep_write_packet(d, d.ctrl_buf, d.ctrl_len)
                 d2 == IF d.ctrl_len = max_packet_size /\ d.ctrl_len < d.req.wLength
                       THEN SetState(d1, "DATA_IN")
                       ELSE SetState(d1, "LAST_DATA_IN")
             IN  [d2 EXCEPT !.ctrl_len = 0, !.ctrl_buf = NULL]

\* mutant: a packet shorter than expected is accepted
read_data_out_accepts_short(d, rx) ==
    LET packetsize == min_u16(MaxPacketSize0, d.req.wLength - d.ctrl_len)
        size == ep_read_packet(rx, packetsize)
        d0 == Log(d, "packet", rx, packetsize)
        d1 == Log(d0, "read", d.ctrl_buf + d.ctrl_len, size)
    IN  [d |-> [d1 EXCEPT !.ctrl_len = U16(@ + size)], ret |-> packetsize]

\* rx: the length of the packet the host sent; the log entry "packet" records
\* it and the size asked for
read_data_out(d, rx) ==
    LET packetsize == min_u16(MaxPacketSize0, d.req.wLength - d.ctrl_len)
        size == ep_read_packet(rx, packetsize)
        d0 == Log(d, "packet", rx, packetsize)
        d1 == Log(d0, "read", d.ctrl_buf + d.ctrl_len, size)
    IN  IF size # packetsize
        THEN [d |-> stall(d1), ret |-> -1]
        ELSE [d |-> [d1 EXCEPT !.ctrl_len = U16(@ + size)], ret |-> packetsize]

(***************************************************************************)
(* dispatch_request.  What the callbacks and the standard-request handler   *)
(* do is an input, the plan: the first plan.nd callbacks called return      *)
(* QUSB_REQ_NEXT_CALLBACK, each after storing a completion callback if      *)
(* plan.dcomp; the call after them (of a callback, or of the standard-      *)
(* request handler) behaves as plan.fin says: it returns fin.ret, leaves    *)
(* fin.len in the length slot (NULL: leaves the slot alone) and stores a    *)
(* completion callback if fin.comp.                                         *)
(***************************************************************************)
_qusb_standard_request(d, fin) ==
    LET d1 == Log(d, "std", fin.ret, fin.len)
    IN  [d |-> [d1 EXCEPT !.ctrl_len = IF fin.len = NULL THEN @ ELSE fin.len],
         ret |-> fin.ret]

user_callback(d, i, b) ==
    LET d1 == Log(d, "cb", i, b.ret)
    IN  [d1 EXCEPT !.ctrl_len = IF b.len = NULL THEN @ ELSE b.len,
                   !.completion = IF b.comp THEN d.user_control_callback[i].cb ELSE @]

RECURSIVE dispatch_from(_, _, _, _)
dispatch_from(d, i, k, plan) ==
    LET cb_list == d.user_control_callback
    IN  IF i > MAX_USER_CONTROL_CALLBACK \/ cb_list[i].cb = NULL
        THEN _qusb_standard_request(d, plan.fin)
        ELSE IF BitAnd(d.req.bmRequestType, cb_list[i].type_mask) = cb_list[i].type
             THEN LET b == IF k <= plan.nd
                           THEN [ret |-> QUSB_REQ_NEXT_CALLBACK, len |-> NULL,
                                 comp |-> plan.dcomp]
                           ELSE plan.fin
                      d1 == user_callback(d, i, b)
                  IN  IF b.ret = QUSB_REQ_HANDLED \/ b.ret = QUSB_REQ_NOTSUPP
                      THEN [d |-> d1, ret |-> b.ret]
                      ELSE dispatch_from(d1, i + 1, k + 1, plan)
             ELSE dispatch_from(d, i + 1, k, plan)

\* mutant: dispatch calls the callbacks without testing the request type
RECURSIVE dispatch_from_any_type(_, _, _, _)
dispatch_from_any_type(d, i, k, plan) ==
    LET cb_list == d.user_control_callback
    IN  IF i > MAX_USER_CONTROL_CALLBACK \/ cb_list[i].cb = NULL
        THEN _qusb_standard_request(d, plan.fin)
        ELSE LET b == IF k <= plan.nd
                      THEN [ret |-> QUSB_REQ_NEXT_CALLBACK, len |-> NULL,
                            comp |-> plan.dcomp]
                      ELSE plan.fin
                 d1 == user_callback(d, i, b)
             IN  IF b.ret = QUSB_REQ_HANDLED \/ b.ret = QUSB_REQ_NOTSUPP
                 THEN [d |-> d1, ret |-> b.ret]
                 ELSE dispatch_from_any_type(d1, i + 1, k + 1, plan)

dispatch_request_any_type(d, plan) ==
    LET r == dispatch_from_any_type(Log(d, "dispatch", 0, 0), 1, 1, plan)
    IN  [d |-> Log(r.d, "result", r.ret, r.d.ctrl_len), ret |-> r.ret]

\* the log entry "result" records what dispatch returns and the length it leaves
dispatch_request(d, plan) ==
    LET r == dispatch_from(Log(d, "dispatch", 0, 0), 1, 1, plan)
    IN  [d |-> Log(r.d, "result", r.ret, r.d.ctrl_len), ret |-> r.ret]

(***************************************************************************)
(* handle_request_no_data, prepare_data_out                                 *)
(***************************************************************************)
\* mutant: a handled SET_ADDRESS request sets the address at once
handle_request_sets_address(d, plan) ==
    LET d1 == [d EXCEPT !.ctrl_buf = 0, !.ctrl_len = d.req.wLength]
        r == dispatch_request(d1, plan)
        d2 == IF d.req.bmRequestType = 0 /\ d.req.bRequest = QUSB_REQ_SET_ADDRESS
              THEN Log([r.d EXCEPT !.address = d.req.wValue], "set_address", d.req.wValue, 0)
              ELSE r.d
    IN  IF r.ret # 0
        THEN IF d.req.wLength > 0
             THEN send_data_in(d2)
             ELSE SetState(ep_write_packet(d2, NULL, 0), "STATUS_IN")
        ELSE stall(r.d)

\* mutant: the response length is not set to wLength before dispatch
handle_request_keeps_len(d, plan) ==
    LET d1 == [d EXCEPT !.ctrl_buf = 0]
        r == dispatch_request(d1, plan)
    IN  IF r.ret # 0
        THEN IF d.req.wLength > 0
             THEN send_data_in(r.d)
             ELSE SetState(ep_write_packet(r.d, NULL, 0), "STATUS_IN")
        ELSE stall(r.d)

\* mutant: a data stage is started when the handler leaves a length above 0
handle_request_by_len(d, plan) ==
    LET d1 == [d EXCEPT !.ctrl_buf = 0, !.ctrl_len = d.req.wLength]
        r == dispatch_request(d1, plan)
    IN  IF r.ret # 0
        THEN IF r.d.ctrl_len > 0
             THEN send_data_in(r.d)
             ELSE SetState(ep_write_packet(r.d, NULL, 0), "STATUS_IN")
        ELSE stall(r.d)

handle_request_no_data(d, plan) ==
    LET d1 == [d EXCEPT !.ctrl_buf = 0, !.ctrl_len = d.req.wLength]
        r == dispatch_request(d1, plan)
    IN  IF r.ret # 0
        THEN IF d.req.wLength > 0
             THEN send_data_in(r.d)
             ELSE SetState(ep_write_packet(r.d, NULL, 0), "STATUS_IN")
        ELSE stall(r.d)

\* mutant: the announced length is not compared with the buffer capacity
prepare_data_out_unchecked(d) ==
    SetState([d EXCEPT !.ctrl_buf = 0, !.ctrl_len = 0],
             IF d.req.wLength > MaxPacketSize0 THEN "DATA_OUT" ELSE "LAST_DATA_OUT")

\* mutant: a payload of one max-size packet is taken for a longer one
prepare_data_out_off_by_one(d) ==
    IF d.req.wLength > CtrlBufLen
    THEN stall(d)
    ELSE SetState([d EXCEPT !.ctrl_buf = 0, !.ctrl_len = 0],
                  IF d.req.wLength >= MaxPacketSize0 THEN "DATA_OUT" ELSE "LAST_DATA_OUT")

prepare_data_out(d) ==
    IF d.req.wLength > CtrlBufLen
    THEN stall(d)
    ELSE SetState([d EXCEPT !.ctrl_buf = 0, !.ctrl_len = 0],
                  IF d.req.wLength > MaxPacketSize0 THEN "DATA_OUT" ELSE "LAST_DATA_OUT")

(***************************************************************************)
(* The three event handlers.                                                *)
(***************************************************************************)
\* the bytes of a SETUP packet that a read of n bytes stores into req
setup_read(req, pkt, n) ==
    [bmRequestType |-> IF n >= 1 THEN pkt.bmRequestType ELSE req.bmRequestType,
     bRequest      |-> IF n >= 2 THEN pkt.bRequest ELSE req.bRequest,
     wValue        |-> IF n >= 4 THEN pkt.wValue ELSE req.wValue,
     wLength       |-> IF n >= 8 THEN pkt.wLength ELSE req.wLength]

\* mutant: the SETUP handler leaves the completion slot as it finds it
_qusb_control_setup_keeps_completion(d, pkt, n, plan) ==
    LET d2 == Log([d EXCEPT !.req = setup_read(d.req, pkt, n)], "read_setup", n, 0)
    IN  IF n # SetupLen
        THEN stall(d2)
        ELSE IF d2.req.wLength = 0
                \/ BitAnd(d2.req.bmRequestType, QUSB_REQ_TYPE_DIRECTION_MASK) = QUSB_REQ_TYPE_IN
             THEN handle_request_no_data(d2, plan)
             ELSE prepare_data_out(d2)

\* pkt: the SETUP packet, n: the number of bytes the read returns
_qusb_control_setup(d, pkt, n, plan) ==
    LET d1 == [d EXCEPT !.completion = NULL]
        d2 == Log([d1 EXCEPT !.req = setup_read(d.req, pkt, n)], "read_setup", n, 0)
    IN  IF n # SetupLen
        THEN stall(d2)
        ELSE IF d2.req.wLength = 0
                \/ BitAnd(d2.req.bmRequestType, QUSB_REQ_TYPE_DIRECTION_MASK) = QUSB_REQ_TYPE_IN
             THEN handle_request_no_data(d2, plan)
             ELSE prepare_data_out(d2)

\* mutant: the end of the status stage does not invoke the completion callback
_qusb_control_out_no_completion(d, rx, plan) ==
    CASE d.state = "DATA_OUT" ->
            LET r == read_data_out(d, rx)
            IN  IF r.ret < 0 THEN r.d
                ELSE IF r.d.req.wLength - r.d.ctrl_len <= MaxPacketSize0
                     THEN SetState(r.d, "LAST_DATA_OUT")
                     ELSE r.d
      [] d.state = "LAST_DATA_OUT" ->
            LET r == read_data_out(d, rx)
            IN  IF r.ret < 0 THEN r.d
                ELSE LET q == dispatch_request(r.d, plan)
                     IN  IF q.ret # 0
                         THEN SetState(ep_write_packet(q.d, NULL, 0), "STATUS_IN")
                         ELSE stall(q.d)
      [] d.state = "STATUS_OUT" ->
            [SetState(Log(d, "read", NULL, 0), "IDLE") EXCEPT !.completion = NULL]
      [] OTHER -> stall(d)

\* mutant: the data stage never leaves DATA_OUT for LAST_DATA_OUT
_qusb_control_out_stays_data_out(d, rx, plan) ==
    CASE d.state = "DATA_OUT" ->
            LET r == read_data_out(d, rx)
            IN  r.d
      [] d.state = "LAST_DATA_OUT" ->
            LET r == read_data_out(d, rx)
            IN  IF r.ret < 0 THEN r.d
                ELSE LET q == dispatch_request(r.d, plan)
                     IN  IF q.ret # 0
                         THEN SetState(ep_write_packet(q.d, NULL, 0), "STATUS_IN")
                         ELSE stall(q.d)
      [] d.state = "STATUS_OUT" ->
            LET d1 == Log(d, "read", NULL, 0)
                d2 == SetState(d1, "IDLE")
                d3 == IF d2.completion # NULL
                      THEN Log(d2, "completion", d2.completion, 0)
                      ELSE d2
            IN  [d3 EXCEPT !.completion = NULL]
      [] OTHER -> stall(d)

_qusb_control_out(d, rx, plan) ==
    CASE d.state = "DATA_OUT" ->
            LET r == read_data_out(d, rx)
            IN  IF r.ret < 0 THEN r.d
                ELSE IF r.d.req.wLength - r.d.ctrl_len <= MaxPacketSize0
                     THEN SetState(r.d, "LAST_DATA_OUT")
                     ELSE r.d
      [] d.state = "LAST_DATA_OUT" ->
            LET r == read_data_out(d, rx)
            IN  IF r.ret < 0 THEN r.d
                ELSE LET q == dispatch_request(r.d, plan)
                     IN  IF q.ret # 0
                         THEN SetState(ep_write_packet(q.d, NULL, 0), "STATUS_IN")
                         ELSE stall(q.d)
      [] d.state = "STATUS_OUT" ->
            LET d1 == Log(d, "read", NULL, 0)
                d2 == SetState(d1, "IDLE")
                d3 == IF d2.completion # NULL
                      THEN Log(d2, "completion", d2.completion, 0)
                      ELSE d2
            IN  [d3 EXCEPT !.completion = NULL]
      [] OTHER -> stall(d)

\* mutant: the IN event in STATUS_IN leaves the state as it is
_qusb_control_in_stays(d) ==
    CASE d.state = "DATA_IN" -> send_data_in(d)
      [] d.state = "LAST_DATA_IN" -> SetState(d, "STATUS_OUT")
      [] d.state = "STATUS_IN" ->
            LET d1 == IF d.completion # NULL
                      THEN Log(d, "completion", d.completion, 0)
                      ELSE d
            IN  IF d1.req.bmRequestType = 0 /\ d1.req.bRequest = QUSB_REQ_SET_ADDRESS
                THEN Log([d1 EXCEPT !.address = d1.req.wValue],
                         "set_address", d1.req.wValue, 0)
                ELSE d1
      [] OTHER -> stall(d)

\* mutant: an IN event that is not expected is ignored
_qusb_control_in_ignores(d) ==
    CASE d.state = "DATA_IN" -> send_data_in(d)
      [] d.state = "LAST_DATA_IN" -> SetState(d, "STATUS_OUT")
      [] d.state = "STATUS_IN" ->
            LET d1 == IF d.completion # NULL
                      THEN Log(d, "completion", d.completion, 0)
                      ELSE d
                d2 == IF d1.req.bmRequestType = 0 /\ d1.req.bRequest = QUSB_REQ_SET_ADDRESS
                      THEN Log([d1 EXCEPT !.address = d1.req.wValue],
                               "set_address", d1.req.wValue, 0)
                      ELSE d1
            IN  SetState(d2, "IDLE")
      [] OTHER -> d

_qusb_control_in(d) ==
    CASE d.state = "DATA_IN" -> send_data_in(d)
      [] d.state = "LAST_DATA_IN" -> SetState(d, "STATUS_OUT")
      [] d.state = "STATUS_IN" ->
            LET d1 == IF d.completion # NULL
                      THEN Log(d, "completion", d.completion, 0)
                      ELSE d
                d2 == IF d1.req.bmRequestType = 0 /\ d1.req.bRequest = QUSB_REQ_SET_ADDRESS
                      THEN Log([d1 EXCEPT !.address = d1.req.wValue],
                               "set_address", d1.req.wValue, 0)
                      ELSE d1
            IN  SetState(d2, "IDLE")
      [] OTHER -> stall(d)

(***************************************************************************)
(* Inputs of the model.                                                     *)
(***************************************************************************)
\* (bmRequestType, bRequest, wValue) of the SETUP packets: SET_ADDRESS to
\* address 1 and the class request GET_LINE_CODING, of every wLength;
\* SET_CONFIGURATION and a host-to-device vendor request, without data
DataRequests == {<<0, QUSB_REQ_SET_ADDRESS, 1>>, <<161, 33, 0>>}

NoDataRequests == {<<0, 9, 0>>, <<64, 1, 0>>}

PacketsOf(reqs, maxw) ==
    {[bmRequestType |-> r[1], bRequest |-> r[2], wValue |-> r[3], wLength |-> w] :
        r \in reqs, w \in 0..maxw}

\* what a read of the SETUP packet may return: nothing, half of it, all of it
SetupSizes == {0, 4, SetupLen}

\* the lengths a handler may leave in the length slot (NULL: leaves it alone)
RespLens == {NULL} \cup (0..MaxRespLen)

\* what the call that decides may do: lens are the lengths it may leave,
\* comps says whether it may, or must, store a completion callback
CbFinals(lens, comps) ==
    {[ret |-> QUSB_REQ_HANDLED, len |-> l, comp |-> c] : l \in lens, c \in comps}
    \cup {[ret |-> QUSB_REQ_NOTSUPP, len |-> NULL, comp |-> c] : c \in comps}

\* the standard-request handler has no access to the completion slot
StdFinals(lens) ==
    {[ret |-> QUSB_REQ_HANDLED, len |-> l, comp |-> FALSE] : l \in lens}
    \cup {[ret |-> QUSB_REQ_NOTSUPP, len |-> NULL, comp |-> FALSE]}

NoPlan ==
    [nd |-> 0, dcomp |-> FALSE,
     fin |-> [ret |-> QUSB_REQ_NOTSUPP, len |-> NULL, comp |-> FALSE]]

Matches(cb_list, bm, i) == BitAnd(bm, cb_list[i].type_mask) = cb_list[i].type

\* the slots dispatch reaches: those before the first free one
Reached(cb_list) ==
    {i \in 1..MAX_USER_CONTROL_CALLBACK : \A j \in 1..i : cb_list[j].cb # NULL}

NMatch(cb_list, bm) == Cardinality({i \in Reached(cb_list) : Matches(cb_list, bm, i)})

\* the plans for a dispatch of a request of type bm, n callbacks matching:
\* nd of them defer, the next call (of a callback if nd < n, else of the
\* standard-request handler) decides
Plans(cb_list, bm, lens, comps) ==
    LET n == NMatch(cb_list, bm)
    IN  {[nd |-> 0, dcomp |-> FALSE, fin |-> f] :
            f \in IF n = 0 THEN StdFinals(lens) ELSE CbFinals(lens, comps)}
        \cup UNION {{[nd |-> nd, dcomp |-> dc, fin |-> f] :
                        dc \in comps,
                        f \in IF nd < n THEN CbFinals(lens, comps) ELSE StdFinals(lens)} :
                    nd \in 1..n}

IsIn(pkt) == BitAnd(pkt.bmRequestType, QUSB_REQ_TYPE_DIRECTION_MASK) = QUSB_REQ_TYPE_IN

\* the host-to-device SETUP packets, with a payload of up to one byte more
\* than the control buffer holds; the device-to-host ones
OutPackets == {p \in PacketsOf(DataRequests, CtrlBufLen + 1) : ~IsIn(p)}

InPackets == {p \in PacketsOf(DataRequests, MaxWLength) : IsIn(p)}

(***************************************************************************)
(* History of the transfer in flight, computed from the handlers' logs.     *)
(***************************************************************************)
Count(log, op) == Len(SelectSeq(log, LAMBDA e : e[1] = op))

Has(log, op) == \E i \in 1..Len(log) : log[i][1] = op

Writes(log) == SelectSeq(log, LAMBDA e : e[1] = "write")

\* the last entry of the log with operation op
Last(log, op) == LET s == SelectSeq(log, LAMBDA e : e[1] = op) IN s[Len(s)]

\* req: the request as the SETUP handler has read it
NewXfer(req, n) ==
    [valid |-> n = SetupLen, dirIn |-> IsIn(req), W |-> req.wLength,
     L |-> NULL, packets |-> <<>>, nRead |-> 0, nDispatch |-> 0,
     nCompletion |-> 0, nSetAddr |-> 0, stalled |-> FALSE, wrapped |-> FALSE]

Summary(x, log) ==
    [x EXCEPT !.packets = @ \o Writes(log),
              !.nRead = @ + Count(log, "read"),
              !.nDispatch = @ + Count(log, "dispatch"),
              !.nCompletion = @ + Count(log, "completion"),
              !.nSetAddr = @ + Count(log, "set_address"),
              !.stalled = @ \/ Has(log, "stall"),
              !.wrapped = @ \/ Has(log, "wrap"),
              !.L = IF Has(log, "result") /\ Last(log, "result")[2] # 0
                    THEN Last(log, "result")[3] ELSE @]

(***************************************************************************)
(* The UART driver, RX side.  rx_buf_head is the position of the circular   *)
(* DMA controller, which the driver only reads.                             *)
(***************************************************************************)
\* the bytes on the line are 0, 1, 2, 0, 1, ...
ByteMod == 3

\* poll() runs more often than the RX buffer half fills: at most this many
\* bytes arrive between two calls
MaxBetweenPolls == UART_RX_BUF_LEN \div 2

InitUart ==
    [rx_buf |-> [i \in 0..(UART_RX_BUF_LEN - 1) |-> 0],
     rx_buf_head |-> 0, rx_buf_tail |-> 0,
     last_rx_size |-> 0, rx_overrun_occurred |-> FALSE]

\* mutant: the length of the data when the head has wrapped is one too long
rx_data_len_off_by_one(u) ==
    IF u.rx_buf_head >= u.rx_buf_tail
    THEN u.rx_buf_head - u.rx_buf_tail
    ELSE UART_RX_BUF_LEN - u.rx_buf_tail + u.rx_buf_head + 1

rx_data_len(u) ==
    IF u.rx_buf_head >= u.rx_buf_tail
    THEN u.rx_buf_head - u.rx_buf_tail
    ELSE UART_RX_BUF_LEN - u.rx_buf_tail + u.rx_buf_head

\* the n bytes of the buffer from position from on, around the end
RxBytes(u, from, n) == [i \in 1..n |-> u.rx_buf[(from + i - 1) % UART_RX_BUF_LEN]]

copy_rx_data(u, len) ==
    LET avail == rx_data_len(u)
        n == IF len < avail THEN len ELSE avail
    IN  [u |-> [u EXCEPT !.rx_buf_tail = (@ + n) % UART_RX_BUF_LEN,
                         !.last_rx_size = IF @ >= n THEN @ - n ELSE 0],
         data |-> RxBytes(u, u.rx_buf_tail, n),
         ret |-> n]

\* mutant: a query of the latch leaves it set
has_rx_overrun_occurred_sticky(u) == [u |-> u, ret |-> u.rx_overrun_occurred]

has_rx_overrun_occurred(u) ==
    [u |-> [u EXCEPT !.rx_overrun_occurred = FALSE], ret |-> u.rx_overrun_occurred]

check_rx_overrun(u) ==
    LET size == rx_data_len(u)
    IN  IF size < u.last_rx_size
        THEN [u EXCEPT !.rx_overrun_occurred = TRUE,
                       !.rx_buf_tail = u.rx_buf_head,
                       !.last_rx_size = 0]
        ELSE [u EXCEPT !.last_rx_size = size]

poll(u) == check_rx_overrun(u)

\* the DMA controller stores k bytes, the first of value b
RECURSIVE dma_store(_, _, _)
dma_store(u, k, b) ==
    IF k = 0 THEN u
    ELSE dma_store([u EXCEPT !.rx_buf[u.rx_buf_head] = b,
                             !.rx_buf_head = (@ + 1) % UART_RX_BUF_LEN],
                   k - 1, (b + 1) % ByteMod)

RECURSIVE ByteSeq(_, _)
ByteSeq(k, b) == IF k = 0 THEN <<>> ELSE <<b>> \o ByteSeq(k - 1, (b + 1) % ByteMod)

InitRxh ==
    [op |-> "init", len |-> 0, ret |-> 0, data |-> <<>>,
     unread |-> <<>>, lost |-> FALSE, sincePoll |-> 0, next |-> 0]

\* k bytes arrive; they are lost data if they do not fit the free space
DmaAdvance ==
    \E k \in 1..MaxBetweenPolls :
        /\ rxh.sincePoll + k <= MaxBetweenPolls
        /\ uart' = dma_store(uart, k, rxh.next)
        /\ rxh' = [rxh EXCEPT !.op = "dma", !.len = k, !.ret = 0, !.data = <<>>,
                              !.unread = IF rxh.lost \/ k > UART_RX_BUF_LEN - 1 - rx_data_len(uart)
                                         THEN <<>> ELSE @ \o ByteSeq(k, rxh.next),
                              !.lost = @ \/ k > UART_RX_BUF_LEN - 1 - rx_data_len(uart),
                              !.sincePoll = @ + k,
                              !.next = (@ + k) % ByteMod]
        /\ UNCHANGED usbvars

\* the poll finds less unread data than the last one left
Detected(u) == rx_data_len(u) < u.last_rx_size

Poll ==
    /\ uart' = poll(uart)
    /\ rxh' = [rxh EXCEPT !.op = "poll", !.len = 0, !.data = <<>>,
                          !.ret = IF Detected(uart) THEN 1 ELSE 0,
                          !.unread = IF Detected(uart) THEN <<>> ELSE @,
                          !.lost = @ /\ ~Detected(uart),
                          !.sincePoll = 0]
    /\ UNCHANGED usbvars

CopyRxData ==
    \E len \in 0..MaxCopyLen :
        LET r == copy_rx_data(uart, len)
        IN  /\ uart' = r.u
            /\ rxh' = [rxh EXCEPT !.op = "copy", !.len = len, !.ret = r.ret,
                                  !.data = r.data,
                                  !.unread = IF rxh.lost THEN <<>>
                                             ELSE SubSeq(@, r.ret + 1, Len(@))]
            /\ UNCHANGED usbvars

HasRxOverrunOccurred ==
    LET r == has_rx_overrun_occurred(uart)
    IN  /\ uart' = r.u
        /\ rxh' = [rxh EXCEPT !.op = "query", !.len = 0, !.data = <<>>,
                              !.ret = IF r.ret THEN 1 ELSE 0]
        /\ UNCHANGED usbvars

NextUart == DmaAdvance \/ Poll \/ CopyRxData \/ HasRxOverrunOccurred

(***************************************************************************)
(* The device after construction, and the operations on it.                 *)
(***************************************************************************)
InitDev ==
    [state |-> "IDLE", ctrl_buf |-> NULL, ctrl_len |-> 0,
     req |-> [bmRequestType |-> 0, bRequest |-> 0, wValue |-> 0, wLength |-> 0],
     completion |-> NULL,
     user_control_callback |->
        [i \in 1..MAX_USER_CONTROL_CALLBACK |-> [type |-> 0, type_mask |-> 0, cb |-> NULL]],
     address |-> 0,
     log |-> <<>>]

Fresh(d) == [d EXCEPT !.log = <<>>]

Event(kind, ret, type, type_mask, cb) ==
    [kind |-> kind, ret |-> ret, type |-> type, type_mask |-> type_mask, cb |-> cb]

Init ==
    /\ dev = InitDev
    /\ event = Event("init", 0, 0, 0, NULL)
    /\ xfer = NewXfer(InitDev.req, 0)
    /\ regs = <<>>
    /\ uart = InitUart
    /\ rxh = InitRxh

Register(type, type_mask, callback) ==
    LET r == qusb_dev_register_control_callback(Fresh(dev), type, type_mask, callback)
    IN  /\ dev' = r.d
        /\ event' = Event("register", r.ret, type, type_mask, callback)
        /\ regs' = IF r.ret = 0 /\ callback # NULL
                   THEN Append(regs, [type |-> type, type_mask |-> type_mask,
                                      cb |-> callback])
                   ELSE regs
        /\ UNCHANGED <<xfer, uart, rxh>>

\* a SETUP event: the packet is one of pkts, the handlers leave a length of
\* lens and store a completion callback as comps says
Setup(pkts, lens, comps) ==
    \E pkt \in pkts, n \in SetupSizes :
        \E plan \in IF n = SetupLen /\ (pkt.wLength = 0 \/ IsIn(pkt))
                    THEN Plans(dev.user_control_callback, pkt.bmRequestType, lens, comps)
                    ELSE {NoPlan} :
            LET d == _qusb_control_setup(Fresh(dev), pkt, n, plan)
            IN  /\ dev' = d
                /\ event' = Event("setup", 0, 0, 0, NULL)
                /\ xfer' = Summary(NewXfer(setup_read(dev.req, pkt, n), n), d.log)
                /\ UNCHANGED <<regs, uart, rxh>>

\* an OUT event: the host has sent a packet of rx bytes
ControlOut(lens, comps) ==
    \E rx \in 0..MaxPacketSize0 :
        \E plan \in IF dev.state = "LAST_DATA_OUT"
                    THEN Plans(dev.user_control_callback, dev.req.bmRequestType, lens, comps)
                    ELSE {NoPlan} :
            LET d == _qusb_control_out(Fresh(dev), rx, plan)
            IN  /\ dev' = d
                /\ event' = Event("out", 0, 0, 0, NULL)
                /\ xfer' = Summary(xfer, d.log)
                /\ UNCHANGED <<regs, uart, rxh>>

\* an IN event
ControlIn ==
    LET d == _qusb_control_in(Fresh(dev))
    IN  /\ dev' = d
        /\ event' = Event("in", 0, 0, 0, NULL)
        /\ xfer' = Summary(xfer, d.log)
        /\ UNCHANGED <<regs, uart, rxh>>

(***************************************************************************)
(* Spec: the engine under every request of the model, with callbacks        *)
(* registered for the requests that are no vendor requests (type 0 under    *)
(* mask 64).  The handlers leave the length slot alone or store 1 in it.    *)
(***************************************************************************)
RegisterCallback == Register(0, 64, 1)

SetupEvent ==
    Setup(OutPackets \cup InPackets \cup PacketsOf(NoDataRequests, 0),
          {NULL, 1}, BOOLEAN)

OutEvent == ControlOut({NULL, 1}, BOOLEAN)

InEvent == ControlIn

Next == RegisterCallback \/ SetupEvent \/ OutEvent \/ InEvent

Spec == Init /\ [][Next]_vars

(***************************************************************************)
(* SpecIn: the IN data stage under every response length.  The requests are *)
(* GET_DESCRIPTOR requests, the callbacks are registered for the standard   *)
(* requests and store a completion callback whenever they are called.       *)
(***************************************************************************)
RegisterStd == Register(0, 96, 1)

SetupIn == Setup(PacketsOf({<<128, 6, 0>>}, MaxInWLength), RespLens, {TRUE})

OutEventIn == ControlOut(RespLens, {TRUE})

InEventIn == ControlIn

NextIn == RegisterStd \/ SetupIn \/ OutEventIn \/ InEventIn

SpecIn == Init /\ [][NextIn]_vars

(***************************************************************************)
(* SpecReg: the callback table under every registration of the model: for   *)
(* the class requests to an interface or for the host-to-device requests,   *)
(* of one of two callbacks or of a null callback.  The requests carry no    *)
(* data, the handlers leave the slots alone.                                *)
(***************************************************************************)
RegTypes == {<<33, 127>>, <<0, QUSB_REQ_TYPE_DIRECTION_MASK>>}

RegCallbacks == {NULL, 1, 2}

RegisterAny == \E t \in RegTypes, cb \in RegCallbacks : Register(t[1], t[2], cb)

SetupReg == Setup(PacketsOf({<<33, 32, 0>>, <<161, 33, 0>>}, 0), {NULL}, {FALSE})

OutEventReg == ControlOut({NULL}, {FALSE})

InEventReg == ControlIn

NextReg == RegisterAny \/ SetupReg \/ OutEventReg \/ InEventReg

SpecReg == Init /\ [][NextReg]_vars

(***************************************************************************)
(* SpecFresh: the data stages, and SETUP events in the middle of them.  The  *)
(* requests are SET_ADDRESS (OUT when it has data) and GET_LINE_CODING, of  *)
(* every wLength; the callbacks leave the length slot alone and store a     *)
(* completion callback whenever they are called.                            *)
(***************************************************************************)
FreshPackets == OutPackets \cup InPackets

SetupFresh == Setup(FreshPackets, {NULL}, {TRUE})

OutEventFresh == ControlOut({NULL}, {TRUE})

InEventFresh == ControlIn

NextFresh == RegisterCallback \/ SetupFresh \/ OutEventFresh \/ InEventFresh

SpecFresh == Init /\ [][NextFresh]_vars

(***************************************************************************)
(* SpecUart: the RX side of the UART driver.                                *)
(***************************************************************************)
SpecUart == Init /\ [][NextUart]_vars

(***************************************************************************)
(* The claims.                                                              *)
(***************************************************************************)
CeilDiv(a, b) == (a + b - 1) \div b

IsPrefix(s, t) == Len(s) <= Len(t) /\ \A i \in 1..Len(s) : s[i] = t[i]

\* the data packets of a response of len bytes, in order: each is written
\* from where the one before ended
DataPackets(len) ==
    [i \in 1..CeilDiv(len, MaxPacketSize0) |->
        <<"write", (i - 1) * MaxPacketSize0,
          IF len - (i - 1) * MaxPacketSize0 < MaxPacketSize0
          THEN len - (i - 1) * MaxPacketSize0 ELSE MaxPacketSize0>>]

ZeroLengthPacket == <<"write", NULL, 0>>

\* an IN transfer that dispatch has handled, leaving a response of L bytes
HandledIn == xfer.valid /\ xfer.dirIn /\ xfer.W > 0 /\ xfer.L # NULL

NeedsZlp(L, W) == L % MaxPacketSize0 = 0 /\ L < W

ExpectedIn(L, W) ==
    IF NeedsZlp(L, W) THEN Append(DataPackets(L), ZeroLengthPacket) ELSE DataPackets(L)

\* C1: in an IN transfer with wLength W > 0 that dispatch handled with a
\* response of L bytes, 0 < L <= W, the packets written are, in order, the
\* ceil(L/maxpacket) data packets of the response, followed by exactly one
\* zero-length packet iff L is a multiple of the max packet size and L < W;
\* the state is DATA_IN while a packet is still to be written and becomes
\* LAST_DATA_IN with the last one.
C1_InDataStage ==
    (HandledIn /\ 0 < xfer.L /\ xfer.L <= xfer.W) =>
        LET exp == ExpectedIn(xfer.L, xfer.W)
        IN  /\ IsPrefix(xfer.packets, exp)
            /\ ~xfer.stalled =>
                 /\ dev.state = "DATA_IN" <=> Len(xfer.packets) < Len(exp)
                 /\ (event.kind \in {"setup", "in"} /\ Has(dev.log, "write")
                     /\ Len(xfer.packets) = Len(exp)) => dev.state = "LAST_DATA_IN"
                 /\ dev.state \in {"DATA_IN", "LAST_DATA_IN", "STATUS_OUT", "IDLE"}

\* C1 witness: a response of two full packets, shorter than wLength, has
\* been sent with its zero-length packet
C1_Witness ==
    /\ HandledIn /\ xfer.L = 2 * MaxPacketSize0 /\ xfer.L < xfer.W
    /\ xfer.packets = Append(DataPackets(xfer.L), ZeroLengthPacket)
    /\ dev.state = "LAST_DATA_IN"

\* an IN transfer whose wLength N is a positive multiple of the max packet
\* size and whose handler has supplied exactly N bytes
FullLengthIn == HandledIn /\ xfer.W % MaxPacketSize0 = 0 /\ xfer.L = xfer.W

\* C2 as the spec states it: in such a transfer the N/maxpacket data packets
\* are followed by one zero-length packet before the status stage
C2_Original ==
    (FullLengthIn /\ ~xfer.stalled /\ dev.state = "STATUS_OUT") =>
        xfer.packets = Append(DataPackets(xfer.W), ZeroLengthPacket)

\* C2 (amended): in such a transfer the engine writes the N/maxpacket data
\* packets of max size and no zero-length packet, and is in LAST_DATA_IN
\* with the last of them; the next IN event gives STATUS_OUT; the OUT event
\* after it reads the status packet, sets the state to IDLE and then invokes
\* the completion callback, once, if one is stored.
C2_FullLengthIn ==
    [][(FullLengthIn' /\ ~xfer'.stalled /\ event'.kind \in {"setup", "in", "out"}) =>
        /\ IsPrefix(xfer'.packets, DataPackets(xfer'.W))
        /\ \A i \in 1..Len(xfer'.packets) : xfer'.packets[i][3] = MaxPacketSize0
        /\ dev'.state = "DATA_IN" <=> Len(xfer'.packets) < xfer'.W \div MaxPacketSize0
        /\ (event'.kind = "setup" \/ dev.state = "DATA_IN") =>
              dev'.state \in {"DATA_IN", "LAST_DATA_IN"}
        /\ (event'.kind = "in" /\ dev.state = "LAST_DATA_IN") =>
              dev'.state = "STATUS_OUT" /\ dev'.log = <<<<"STATUS_OUT", 0, 0>>>>
        /\ (event'.kind = "out" /\ dev.state = "STATUS_OUT") =>
              /\ dev'.state = "IDLE"
              /\ dev'.completion = NULL
              /\ xfer'.packets = DataPackets(xfer'.W)
              /\ dev'.log = IF dev.completion # NULL
                            THEN <<<<"read", NULL, 0>>, <<"IDLE", 0, 0>>,
                                   <<"completion", dev.completion, 0>>>>
                            ELSE <<<<"read", NULL, 0>>, <<"IDLE", 0, 0>>>>
              /\ xfer'.nCompletion = IF dev.completion # NULL THEN 1 ELSE 0
      ]_vars

\* C2 witness: a transfer of two full packets has ended with its completion
\* callback
C2_Witness ==
    /\ FullLengthIn /\ xfer.W = 2 * MaxPacketSize0 /\ ~xfer.stalled
    /\ event.kind = "out" /\ dev.state = "IDLE"
    /\ xfer.packets = DataPackets(xfer.W)
    /\ xfer.nCompletion = 1

\* the bytes of the packets written
RECURSIVE TotalLen(_)
TotalLen(pk) == IF pk = <<>> THEN 0 ELSE pk[1][3] + TotalLen(Tail(pk))

\* C3: in an IN transfer whose wLength N is not a multiple of the max packet
\* size and whose handler has more than N bytes (it leaves N, or more than
\* N, in the length slot), the engine writes ceil(N/maxpacket) data packets
\* and no more, at most N bytes in total, no zero-length packet, and the
\* remaining-wLength counter does not wrap.
C3_Claim ==
    (HandledIn /\ xfer.W % MaxPacketSize0 # 0 /\ xfer.L >= xfer.W) =>
        /\ Len(xfer.packets) <= CeilDiv(xfer.W, MaxPacketSize0)
        /\ TotalLen(xfer.packets) <= xfer.W
        /\ \A i \in 1..Len(xfer.packets) : xfer.packets[i][3] > 0
        /\ ~xfer.wrapped
        /\ (~xfer.stalled /\ dev.state # "DATA_IN") =>
              Len(xfer.packets) = CeilDiv(xfer.W, MaxPacketSize0)

\* C4: a SETUP with direction OUT and wLength above the capacity of the
\* control buffer stalls endpoint 0 and leaves the state IDLE; no packet is
\* read into the buffer or written and dispatch is not run in that transfer;
\* every IN or OUT event that follows only stalls again.
OversizedOut == xfer.valid /\ ~xfer.dirIn /\ xfer.W > CtrlBufLen

C4_OversizedOut ==
    OversizedOut =>
        /\ dev.state = "IDLE"
        /\ xfer.stalled
        /\ xfer.nRead = 0 /\ xfer.nDispatch = 0 /\ xfer.packets = <<>>
        /\ xfer.nCompletion = 0
        /\ event.kind = "setup" =>
              dev.log = <<<<"read_setup", SetupLen, 0>>, <<"stall", 0, 0>>, <<"IDLE", 0, 0>>>>
        /\ event.kind \in {"in", "out"} =>
              dev.log = <<<<"stall", 0, 0>>, <<"IDLE", 0, 0>>>>

\* C4 witness: an OUT event has followed the oversized SETUP
C4_Witness == OversizedOut /\ event.kind = "out" /\ Has(dev.log, "stall")

\* a step that ends the status stage of a transfer
StatusEnds ==
    \/ event'.kind = "out" /\ dev.state = "STATUS_OUT"
    \/ event'.kind = "in" /\ dev.state = "STATUS_IN"

\* C5: the completion callback is invoked at most once per SETUP: once, by
\* the OUT event in STATUS_OUT or the IN event in STATUS_IN, if one is
\* stored, and by no other step; no step of a transfer that has stalled
\* invokes it.
C5_CompletionOnce ==
    [][event'.kind \in {"setup", "in", "out"} =>
        /\ xfer'.nCompletion <= 1
        /\ Has(dev'.log, "completion") => StatusEnds /\ dev.completion # NULL
        /\ (StatusEnds /\ dev.completion # NULL) =>
              /\ Count(dev'.log, "completion") = 1
              /\ Last(dev'.log, "completion")[2] = dev.completion
              /\ xfer'.nCompletion = 1
        /\ (event'.kind # "setup" /\ xfer.stalled) => ~Has(dev'.log, "completion")
        /\ Has(dev'.log, "stall") => ~Has(dev'.log, "completion")
      ]_vars

\* C5 witness: the completion callback of a transfer has run, and the IN
\* and OUT events after it have stalled
C5_Witness == xfer.nCompletion = 1 /\ xfer.stalled /\ event.kind = "out"

\* C6: the device address is set only by the IN event in STATUS_IN of a
\* SET_ADDRESS request (bmRequestType 0), to the request's wValue, after
\* the completion callback (if one is stored) and before the state becomes
\* IDLE; no SETUP event, OUT event or IN event in another state sets it, and
\* no event of a stalled transfer does.
IsSetAddress(req) == req.bmRequestType = 0 /\ req.bRequest = QUSB_REQ_SET_ADDRESS

C6_SetAddress ==
    [][event'.kind \in {"setup", "in", "out"} =>
        /\ (Has(dev'.log, "set_address") \/ dev'.address # dev.address) =>
              /\ event'.kind = "in" /\ dev.state = "STATUS_IN"
              /\ IsSetAddress(dev.req)
              /\ ~xfer.stalled /\ ~xfer'.stalled
              /\ dev'.address = dev.req.wValue
              /\ dev'.log = (IF dev.completion # NULL
                             THEN <<<<"completion", dev.completion, 0>>>> ELSE <<>>)
                            \o <<<<"set_address", dev.req.wValue, 0>>, <<"IDLE", 0, 0>>>>
        /\ (event'.kind = "in" /\ dev.state = "STATUS_IN" /\ IsSetAddress(dev.req)) =>
              Count(dev'.log, "set_address") = 1
      ]_vars

\* C6 witness: the address of a SET_ADDRESS request with a data stage has
\* been set after its completion callback
C6_Witness ==
    /\ Has(dev.log, "set_address") /\ Has(dev.log, "completion")
    /\ dev.address = 1 /\ xfer.W > 0 /\ xfer.nRead > 0

RECURSIVE SortedSeq(_)
SortedSeq(S) ==
    IF S = {} THEN <<>>
    ELSE LET m == CHOOSE x \in S : \A y \in S : x <= y
         IN  <<m>> \o SortedSeq(S \ {m})

\* C7: dispatch calls the callbacks whose (bmRequestType & mask) = type, in
\* the order of their slots, the first registered first, and no other
\* callback; it calls the next one only when the one before has returned
\* QUSB_REQ_NEXT_CALLBACK; when all of them have (or there is none) it calls
\* the standard-request handler, once and after them, and returns its result.
C7_DispatchOrder ==
    Has(dev.log, "dispatch") =>
        LET cb_list == dev.user_control_callback
            bm == dev.req.bmRequestType
            matching == SortedSeq({i \in Reached(cb_list) : Matches(cb_list, bm, i)})
            calls == SelectSeq(dev.log, LAMBDA e : e[1] \in {"cb", "std"})
            cbs == SelectSeq(dev.log, LAMBDA e : e[1] = "cb")
            n == Len(cbs)
            result == Last(dev.log, "result")[2]
        IN  /\ Count(dev.log, "dispatch") = 1
            /\ n <= Len(matching)
            /\ \A i \in 1..n : cbs[i][2] = matching[i]
            /\ \A i \in 1..(n - 1) : cbs[i][3] = QUSB_REQ_NEXT_CALLBACK
            /\ IF n = Len(matching) /\ (n = 0 \/ cbs[n][3] = QUSB_REQ_NEXT_CALLBACK)
               THEN /\ Count(dev.log, "std") = 1
                    /\ calls[Len(calls)][1] = "std"
                    /\ result = Last(dev.log, "std")[2]
               ELSE /\ ~Has(dev.log, "std")
                    /\ cbs[n][3] # QUSB_REQ_NEXT_CALLBACK

\* C7 witness: of two callbacks that match, the first has deferred, the
\* second has deferred, and the standard-request handler has been called
C7_Witness ==
    LET cbs == SelectSeq(dev.log, LAMBDA e : e[1] = "cb")
    IN  /\ Len(cbs) = 2 /\ cbs[1][2] = 1 /\ cbs[2][2] = 2
        /\ cbs[1][3] = QUSB_REQ_NEXT_CALLBACK /\ cbs[2][3] = QUSB_REQ_NEXT_CALLBACK
        /\ Has(dev.log, "std")
        /\ dev.user_control_callback[1] # dev.user_control_callback[2]

FreeSlots(cb_list) == {i \in 1..MAX_USER_CONTROL_CALLBACK : cb_list[i].cb = NULL}

\* the table holds the registrations that returned 0, in call order
TableIsRegs ==
    /\ Len(regs) <= MAX_USER_CONTROL_CALLBACK
    /\ \A i \in 1..MAX_USER_CONTROL_CALLBACK :
          IF i <= Len(regs)
          THEN dev.user_control_callback[i] = regs[i]
          ELSE dev.user_control_callback[i].cb = NULL

\* C8: a registration of a non-null callback stores (type, mask, callback)
\* in the first free slot, returns 0 and leaves the other slots as they are;
\* with no slot free it returns -1 and leaves the table as it is.  The table
\* holds the registrations that returned 0, in call order, and these are at
\* most MAX_USER_CONTROL_CALLBACK.
C8_Register ==
    [][(event'.kind = "register" /\ event'.cb # NULL) =>
        LET cb_list == dev.user_control_callback
            free == FreeSlots(cb_list)
        IN  /\ IF free # {}
               THEN LET i == CHOOSE x \in free : \A y \in free : x <= y
                    IN  /\ event'.ret = 0
                        /\ dev'.user_control_callback =
                              [cb_list EXCEPT ![i] = [type |-> event'.type,
                                                      type_mask |-> event'.type_mask,
                                                      cb |-> event'.cb]]
                        /\ regs' = Append(regs, dev'.user_control_callback[i])
               ELSE /\ event'.ret = -1
                    /\ dev'.user_control_callback = cb_list
                    /\ regs' = regs
            /\ TableIsRegs'
      ]_vars

\* C8 witness: a registration has found the table full, two different
\* registrations in it
C8_Witness ==
    /\ event.kind = "register" /\ event.ret = -1 /\ event.cb # NULL
    /\ Len(regs) = MAX_USER_CONTROL_CALLBACK
    /\ regs[1] # regs[2]


(***************************************************************************)
(* The UART driver (SpecUart).                                              *)
(***************************************************************************)
Latch(u) == u.rx_overrun_occurred

\* C9: when the DMA controller has stored more bytes than the RX buffer had
\* room for and poll() then runs, the overrun latch is set; the latch is set
\* by nothing else, has_rx_overrun_occurred() returns the latch and clears
\* it, so it returns true once and then false until poll() detects another
\* overrun.
C9_OverrunLatch ==
    [][/\ rxh'.op = "poll" =>
            /\ rxh.lost => Latch(uart')
            /\ Latch(uart') <=> (Latch(uart) \/ rxh.lost)
       /\ rxh'.op = "query" =>
            /\ (rxh'.ret = 1) <=> Latch(uart)
            /\ ~Latch(uart')
       /\ rxh'.op \in {"dma", "copy"} => Latch(uart') = Latch(uart)]_vars

\* an overrun was detected, reported by one query, and the latch is clear
C9_Witness ==
    /\ rxh.op = "query"
    /\ rxh.ret = 1
    /\ ~Latch(uart)

RxInRange ==
    /\ uart.rx_buf_head \in 0..(UART_RX_BUF_LEN - 1)
    /\ uart.rx_buf_tail \in 0..(UART_RX_BUF_LEN - 1)
    /\ rx_data_len(uart) <= UART_RX_BUF_LEN - 1

\* the data between tail and head are the bytes received and not read
RxHoldsUnread ==
    /\ rx_data_len(uart) = Len(rxh.unread)
    /\ RxBytes(uart, uart.rx_buf_tail, rx_data_len(uart)) = rxh.unread

\* C10: head and tail stay in [0, UART_RX_BUF_LEN) and rx_data_len() is at
\* most UART_RX_BUF_LEN - 1; while no data has been overwritten the buffer
\* holds the bytes received and not read, and copy_rx_data(buf, len) returns
\* min(len, rx_data_len()) bytes, the oldest unread ones in arrival order,
\* and removes exactly those.
C10_RingBuffer ==
    /\ [](RxInRange /\ (~rxh.lost => RxHoldsUnread))
    /\ [][(rxh'.op = "copy" /\ ~rxh.lost) =>
            LET avail == rx_data_len(uart)
                n == IF rxh'.len < avail THEN rxh'.len ELSE avail
            IN  /\ avail = Len(rxh.unread)
                /\ rxh'.ret = n
                /\ rxh'.data = SubSeq(rxh.unread, 1, n)
                /\ rxh'.unread = SubSeq(rxh.unread, n + 1, Len(rxh.unread))
                /\ rx_data_len(uart') = avail - n]_vars

\* a copy of two or more bytes around the end of the buffer, shorter than
\* asked for, with no data lost
C10_Witness ==
    /\ rxh.op = "copy"
    /\ ~rxh.lost
    /\ rxh.ret >= 2
    /\ rxh.ret < rxh.len
    /\ uart.rx_buf_tail < rxh.ret


(***************************************************************************)
(* Stalls and protocol violations (Spec).                                   *)
(***************************************************************************)
Stalls(log) == Has(log, "stall")

StallOnly == <<<<"stall", 0, 0>>, <<"IDLE", 0, 0>>>>

\* C11 as the spec states it, for the stalls of a transfer that dispatch has
\* handled: after a stall the state is IDLE and the completion slot is empty
C11_Original ==
    (Stalls(dev.log) /\ xfer.L # NULL) => (dev.state = "IDLE" /\ dev.completion = NULL)

\* C11 (amended): a stall is followed at once by state IDLE and ends the
\* handler; the completion slot is empty after a stall caused by a short SETUP
\* read, an oversized OUT payload or a short OUT data packet; a completion
\* callback that another stall leaves in the slot is not invoked: in IDLE an
\* IN or OUT event only stalls, and a SETUP event invokes no completion
\* callback and leaves in the slot only what a callback stores during it.
C11_Stall ==
    [][/\ Stalls(dev'.log) =>
            /\ dev'.state = "IDLE"
            /\ SubSeq(dev'.log, Len(dev'.log) - 1, Len(dev'.log)) = StallOnly
            /\ Count(dev'.log, "stall") = 1
            /\ (~Has(dev'.log, "dispatch")
                /\ (event'.kind = "setup" \/ dev.state \in {"DATA_OUT", "LAST_DATA_OUT"}))
               => dev'.completion = NULL
       /\ (dev.state = "IDLE" /\ event'.kind \in {"in", "out"}) =>
            /\ dev'.log = StallOnly
            /\ dev'.completion = dev.completion
       /\ event'.kind = "setup" =>
            /\ ~Has(dev'.log, "completion")
            /\ dev'.completion # NULL => Has(dev'.log, "cb")]_vars

\* an IN event has stalled a transfer whose completion callback stays in the
\* slot, not invoked
C11_Witness ==
    /\ event.kind = "in"
    /\ dev.log = StallOnly
    /\ dev.completion # NULL
    /\ xfer.L # NULL
    /\ xfer.nCompletion = 0

\* C12: a SETUP event whose read of the packet does not return 8 bytes, in
\* whatever state and with whatever completion callback pending, stalls
\* endpoint 0 and does nothing else: the state is IDLE, the completion slot
\* is empty, dispatch is not run, no packet is written.
C12_ShortSetup ==
    [][(event'.kind = "setup" /\ ~xfer'.valid) =>
         /\ Len(dev'.log) = 3
         /\ dev'.log[1][1] = "read_setup" /\ dev'.log[1][2] # SetupLen
         /\ SubSeq(dev'.log, 2, 3) = StallOnly
         /\ dev'.state = "IDLE"
         /\ dev'.completion = NULL
         /\ xfer'.stalled /\ xfer'.nDispatch = 0 /\ xfer'.packets = <<>>
         /\ dev'.ctrl_len = dev.ctrl_len /\ dev'.ctrl_buf = dev.ctrl_buf]_vars

\* a SETUP event with a read of 4 bytes has stalled a transfer that was in
\* its IN data stage (the cursor and the remaining length are still there)
C12_Witness ==
    /\ event.kind = "setup" /\ ~xfer.valid
    /\ dev.log[1] = <<"read_setup", 4, 0>>
    /\ dev.state = "IDLE"
    /\ dev.ctrl_buf = MaxPacketSize0 /\ dev.ctrl_len > 0


(***************************************************************************)
(* A fresh SETUP (SpecFresh).                                               *)
(***************************************************************************)
\* the engine at rest, with the callback table and the address of d
Reset(d) ==
    [InitDev EXCEPT !.user_control_callback = d.user_control_callback,
                    !.address = d.address]

\* what the handlers may do when a SETUP packet pkt is dispatched
FreshPlans(pkt) ==
    IF pkt.wLength = 0 \/ IsIn(pkt)
    THEN Plans(dev.user_control_callback, pkt.bmRequestType, {NULL, 1}, BOOLEAN)
    ELSE {NoPlan}

\* C13: whatever state the engine is in (control state, cursor, remaining
\* length, pending completion callback), a well-formed SETUP packet handled
\* with a given dispatch outcome has the effects, and leaves the control state,
\* the request and the completion slot, that it has and leaves on the engine
\* at rest; the cursor and the length are the same too unless the SETUP is
\* stalled before they are set; and the handler invokes no completion
\* callback, so one pending from the transfer before is dropped.
C13_FreshSetup ==
    \A pkt \in FreshPackets : \A plan \in FreshPlans(pkt) :
        LET a == _qusb_control_setup(Fresh(dev), pkt, SetupLen, plan)
            b == _qusb_control_setup(Reset(dev), pkt, SetupLen, plan)
        IN  /\ a.state = b.state
            /\ a.req = b.req
            /\ a.completion = b.completion
            /\ a.log = b.log
            /\ ~Has(a.log, "completion")
            /\ (Has(a.log, "dispatch") \/ ~Stalls(a.log)) =>
                  (a.ctrl_buf = b.ctrl_buf /\ a.ctrl_len = b.ctrl_len)

\* a well-formed SETUP event has been handled (and stalled, its OUT payload
\* being too long) by an engine that was in the middle of an IN data stage:
\* the cursor and the remaining length of that stage are still there
C13_Witness ==
    /\ event.kind = "setup" /\ xfer.valid
    /\ ~xfer.dirIn /\ xfer.W > CtrlBufLen
    /\ dev.state = "IDLE"
    /\ dev.ctrl_buf = MaxPacketSize0 /\ dev.ctrl_len > 0


\* the states in which an OUT event, or an IN event, is not expected
NoOutStates == {"IDLE", "DATA_IN", "LAST_DATA_IN", "STATUS_IN"}

NoInStates == {"IDLE", "DATA_OUT", "LAST_DATA_OUT", "STATUS_OUT"}

\* C14: an OUT event in IDLE, DATA_IN, LAST_DATA_IN or STATUS_IN, and an IN
\* event in IDLE, DATA_OUT, LAST_DATA_OUT or STATUS_OUT, stalls endpoint 0
\* and sets the state to IDLE, and does nothing else: no packet is read or
\* written, dispatch is not run, no completion callback is invoked, and the
\* address, the length and the completion slot are as they were.
C14_Unexpected ==
    [][((event'.kind = "out" /\ dev.state \in NoOutStates)
        \/ (event'.kind = "in" /\ dev.state \in NoInStates)) =>
         /\ dev'.log = StallOnly
         /\ dev'.state = "IDLE"
         /\ xfer' = [xfer EXCEPT !.stalled = TRUE]
         /\ dev' = [dev EXCEPT !.state = "IDLE", !.log = StallOnly]]_vars

\* an IN event has stalled an OUT transfer of two packets that had received
\* its first packet and not yet run dispatch
C14_Witness ==
    /\ event.kind = "in"
    /\ dev.log = StallOnly
    /\ xfer.valid /\ ~xfer.dirIn /\ xfer.W > MaxPacketSize0
    /\ xfer.nRead = 1 /\ dev.ctrl_len = MaxPacketSize0
    /\ xfer.nDispatch = 0


(***************************************************************************)
(* The OUT data stage (SpecFresh).                                          *)
(***************************************************************************)
\* an OUT transfer with a payload that fits the control buffer
OutTransfer == xfer.valid /\ ~xfer.dirIn /\ 0 < xfer.W /\ xfer.W <= CtrlBufLen

\* C15: in an OUT transfer with 0 < wLength <= capacity, dispatch is run at
\* most once, by the OUT event that reads packet number ceil(wLength /
\* maxpacket), never by an earlier one, and it is run when that packet has
\* its full size: the accumulated length is then wLength.  If dispatch
\* reports handled, one zero-length status packet is written and the state
\* becomes STATUS_IN; if not, endpoint 0 is stalled and the state becomes
\* IDLE.
C15_OutDispatch ==
    /\ [](OutTransfer =>
            /\ xfer.nDispatch <= 1
            /\ xfer.nRead <= CeilDiv(xfer.W, MaxPacketSize0)
            /\ xfer.nDispatch = 1 => xfer.nRead = CeilDiv(xfer.W, MaxPacketSize0)
            /\ dev.state \in {"DATA_OUT", "LAST_DATA_OUT"} => xfer.nDispatch = 0)
    /\ [][(event'.kind = "out" /\ OutTransfer /\ dev.state = "DATA_OUT") =>
            ~Has(dev'.log, "dispatch")]_vars
    /\ [][(event'.kind = "out" /\ OutTransfer /\ dev.state = "LAST_DATA_OUT") =>
            LET expected == dev.req.wLength - dev.ctrl_len
                full == dev'.log[2] = <<"read", dev.ctrl_len, expected>>
            IN  /\ full <=> Has(dev'.log, "dispatch")
                /\ full =>
                     /\ dev'.log[3] = <<"dispatch", 0, 0>>
                     /\ xfer'.nRead = CeilDiv(xfer.W, MaxPacketSize0)
                     /\ IF Last(dev'.log, "result")[2] # 0
                        THEN /\ SubSeq(dev'.log, Len(dev'.log) - 1, Len(dev'.log))
                                  = <<ZeroLengthPacket, <<"STATUS_IN", 0, 0>>>>
                             /\ xfer'.packets = <<ZeroLengthPacket>>
                             /\ dev'.state = "STATUS_IN"
                             /\ ~Stalls(dev'.log)
                        ELSE /\ SubSeq(dev'.log, Len(dev'.log) - 1, Len(dev'.log))
                                  = StallOnly
                             /\ xfer'.packets = <<>>
                             /\ dev'.state = "IDLE"]_vars

\* an OUT transfer of three packets has been handled on its third packet
C15_Witness ==
    /\ OutTransfer /\ xfer.W > 2 * MaxPacketSize0
    /\ event.kind = "out"
    /\ xfer.nRead = 3 /\ xfer.nDispatch = 1
    /\ xfer.packets = <<ZeroLengthPacket>>
    /\ dev.state = "STATUS_IN"


\* the packet an OUT event of the data stage has received: its length and
\* the size the engine asked for
Packet(log) == Last(log, "packet")

\* C16 as the spec states it: a packet of the OUT data stage whose length
\* differs from the expected size stalls endpoint 0 and sets the state to IDLE
C16_Original ==
    (event.kind = "out" /\ Has(dev.log, "packet")
     /\ Packet(dev.log)[2] # Packet(dev.log)[3]) =>
        (Stalls(dev.log) /\ dev.state = "IDLE")

\* C16 (amended): in DATA_OUT or LAST_DATA_OUT the engine asks for
\* min(max packet size, wLength - accumulated length) bytes.  A packet
\* shorter than that stalls endpoint 0 and sets the state to IDLE; the
\* accumulated length is left unchanged, no status packet is written, and
\* dispatch is not run (nor is it by the IN and OUT events that follow, which
\* only stall).  A packet of that length or longer is read up to that size
\* and the accumulated length grows by it.
C16_ShortOut ==
    /\ [][(event'.kind = "out" /\ dev.state \in {"DATA_OUT", "LAST_DATA_OUT"}) =>
            LET expected == IF dev.req.wLength - dev.ctrl_len < MaxPacketSize0
                            THEN dev.req.wLength - dev.ctrl_len ELSE MaxPacketSize0
                pk == dev'.log[1]
            IN  /\ pk[1] = "packet" /\ pk[3] = expected
                /\ pk[2] < expected =>
                     /\ dev'.log = <<pk, <<"read", dev.ctrl_len, pk[2]>>>> \o StallOnly
                     /\ dev'.state = "IDLE"
                     /\ dev'.ctrl_len = dev.ctrl_len
                     /\ xfer'.nDispatch = 0 /\ xfer'.packets = <<>>
                /\ pk[2] >= expected =>
                     /\ dev'.log[2] = <<"read", dev.ctrl_len, expected>>
                     /\ ~Has(dev'.log, "dispatch") =>
                           (dev'.ctrl_len = dev.ctrl_len + expected /\ ~Stalls(dev'.log))]_vars
    /\ [][(event'.kind \in {"in", "out"} /\ dev.state = "IDLE") =>
            (xfer'.nDispatch = xfer.nDispatch /\ xfer'.packets = xfer.packets)]_vars

\* the second packet of an OUT transfer was too short: the transfer is
\* stalled with the length of the first packet accumulated
C16_Witness ==
    /\ event.kind = "out" /\ OutTransfer
    /\ Has(dev.log, "packet") /\ Packet(dev.log)[2] < Packet(dev.log)[3]
    /\ dev.ctrl_len = MaxPacketSize0
    /\ dev.state = "IDLE" /\ xfer.nDispatch = 0


(***************************************************************************)
(* Transfers without a data stage (Spec).                                   *)
(***************************************************************************)
NoDataTransfer == xfer.valid /\ xfer.W = 0

DataStageStates == {"DATA_IN", "LAST_DATA_IN", "DATA_OUT", "LAST_DATA_OUT", "STATUS_OUT"}

\* C17: in a transfer whose SETUP has wLength 0, of either direction,
\* dispatch is run once, by the SETUP event, and no packet is read; if
\* dispatch reports handled, whatever length the handler leaves, exactly one
\* zero-length packet is written and the state becomes STATUS_IN; if not,
\* endpoint 0 is stalled and the state becomes IDLE; no data-stage state and
\* not STATUS_OUT is entered during the transfer.
C17_NoData ==
    NoDataTransfer =>
        /\ xfer.nDispatch = 1 /\ xfer.nRead = 0
        /\ dev.state \in {"STATUS_IN", "IDLE"}
        /\ \A i \in 1..Len(dev.log) : dev.log[i][1] \notin DataStageStates
        /\ IF xfer.L # NULL
           THEN xfer.packets = <<ZeroLengthPacket>>
           ELSE xfer.packets = <<>> /\ xfer.stalled /\ dev.state = "IDLE"
        /\ event.kind = "setup" =>
              /\ dev.log[2] = <<"dispatch", 0, 0>>
              /\ IF xfer.L # NULL
                 THEN /\ SubSeq(dev.log, Len(dev.log) - 1, Len(dev.log))
                           = <<ZeroLengthPacket, <<"STATUS_IN", 0, 0>>>>
                      /\ dev.state = "STATUS_IN" /\ ~xfer.stalled
                 ELSE SubSeq(dev.log, Len(dev.log) - 1, Len(dev.log)) = StallOnly

\* a device-to-host SETUP with wLength 0 has been handled by a handler that
\* left a length of 1: the status packet is written, no data
C17_Witness ==
    /\ NoDataTransfer /\ xfer.dirIn
    /\ event.kind = "setup"
    /\ xfer.L = 1
    /\ xfer.packets = <<ZeroLengthPacket>>
    /\ dev.state = "STATUS_IN"


\* the bytes of the OUT payload still expected
Remaining(d) == d.req.wLength - d.ctrl_len

\* C18: in DATA_OUT the bytes still expected exceed the max packet size; in
\* LAST_DATA_OUT they are at least 1 and at most the max packet size; in
\* both states accumulated length <= wLength <= capacity of the control
\* buffer and the buffer cursor is at its start, so wLength - accumulated
\* length does not underflow, and every read of an OUT data packet asks for
\* 1 to max-packet-size bytes and ends within the control buffer.
C18_OutStage ==
    /\ [](/\ dev.state = "DATA_OUT" => Remaining(dev) > MaxPacketSize0
          /\ dev.state = "LAST_DATA_OUT" =>
                (1 <= Remaining(dev) /\ Remaining(dev) <= MaxPacketSize0)
          /\ dev.state \in {"DATA_OUT", "LAST_DATA_OUT"} =>
                /\ 0 <= dev.ctrl_len /\ dev.ctrl_len <= dev.req.wLength
                /\ dev.req.wLength <= CtrlBufLen
                /\ dev.ctrl_buf = 0)
    /\ [][(event'.kind = "out" /\ Has(dev'.log, "packet")) =>
            LET pk == dev'.log[1]
                rd == dev'.log[2]
            IN  /\ 1 <= pk[3] /\ pk[3] <= MaxPacketSize0
                /\ rd[1] = "read" /\ rd[2] = dev.ctrl_len /\ rd[3] <= pk[3]
                /\ rd[2] + pk[3] <= CtrlBufLen]_vars

\* an OUT transfer that fills the control buffer has received two packets
\* (DATA_OUT after the first) and expects its last
C18_Witness ==
    /\ dev.state = "LAST_DATA_OUT"
    /\ event.kind = "out"
    /\ dev.req.wLength = CtrlBufLen
    /\ dev.ctrl_len = 2 * MaxPacketSize0
    /\ xfer.nRead = 2


(***************************************************************************)
(* The IN data stage ends (SpecIn).                                         *)
(***************************************************************************)
\* C19: in an IN transfer that dispatch has handled with a response of L
\* bytes, every IN event in DATA_IN writes one packet and either leaves
\* DATA_IN for LAST_DATA_IN or lowers the remaining length; while the state
\* is DATA_IN at most ceil(L / maxpacket) packets have been written, the
\* first by the SETUP event, so DATA_IN is left after at most
\* ceil(L / maxpacket) + 1 IN events.  An IN event in LAST_DATA_IN gives
\* STATUS_OUT and an OUT event in STATUS_OUT gives IDLE.
C19_InEnds ==
    /\ []((HandledIn /\ dev.state = "DATA_IN") =>
            /\ ~xfer.stalled
            /\ Len(xfer.packets) >= 1
            /\ Len(xfer.packets) - 1 < CeilDiv(xfer.L, MaxPacketSize0) + 1
            /\ Len(xfer.packets) <= CeilDiv(xfer.L, MaxPacketSize0))
    /\ [][(HandledIn /\ event'.kind = "in" /\ dev.state = "DATA_IN") =>
            /\ Len(xfer'.packets) = Len(xfer.packets) + 1
            /\ \/ dev'.state = "LAST_DATA_IN"
               \/ dev'.state = "DATA_IN" /\ dev'.ctrl_len < dev.ctrl_len
            /\ dev.ctrl_len > MaxPacketSize0 =>
                  dev'.ctrl_len = dev.ctrl_len - MaxPacketSize0]_vars
    /\ [][(HandledIn /\ event'.kind = "in" /\ dev.state = "LAST_DATA_IN") =>
            dev'.state = "STATUS_OUT"]_vars
    /\ [][(HandledIn /\ event'.kind = "out" /\ dev.state = "STATUS_OUT") =>
            dev'.state = "IDLE"]_vars

\* a response of three packets has been sent and its status stage is over
C19_Witness ==
    /\ HandledIn /\ ~xfer.stalled
    /\ xfer.L = 2 * MaxPacketSize0 + 1
    /\ Len(xfer.packets) = 3
    /\ event.kind = "out" /\ xfer.nRead = 1
    /\ dev.state = "IDLE"


(***************************************************************************)
(* The callback table is a prefix (SpecReg).                                *)
(***************************************************************************)
Occupied(cb_list) == {i \in 1..MAX_USER_CONTROL_CALLBACK : cb_list[i].cb # NULL}

Decisive(ret) == ret = QUSB_REQ_HANDLED \/ ret = QUSB_REQ_NOTSUPP

\* C20: no free slot of the callback table precedes an occupied one, so the
\* slots dispatch scans, those before the first free one, are all the
\* occupied ones: when no callback decides, every registered callback that
\* matches the request has been called.  A callback that returns handled or
\* not-supported is the last call of the dispatch: no callback and not the
\* standard-request handler is called after it, and dispatch returns what
\* it returned.
C20_TablePrefix ==
    LET cb_list == dev.user_control_callback
    IN  /\ \A i, j \in 1..MAX_USER_CONTROL_CALLBACK :
              (i < j /\ cb_list[j].cb # NULL) => cb_list[i].cb # NULL
        /\ Reached(cb_list) = Occupied(cb_list)
        /\ \A i \in 1..Len(regs) : \E j \in Occupied(cb_list) : cb_list[j] = regs[i]
        /\ Has(dev.log, "dispatch") =>
              LET bm == dev.req.bmRequestType
                  first == CHOOSE k \in 1..Len(dev.log) : dev.log[k][1] = "dispatch"
                  after == SubSeq(dev.log, first + 1, Len(dev.log))
                  calls == SelectSeq(after, LAMBDA e : e[1] \in {"cb", "std"})
                  decided == {k \in 1..Len(calls) :
                                 calls[k][1] = "cb" /\ Decisive(calls[k][3])}
                  result == Last(dev.log, "result")[2]
              IN  IF decided # {}
                  THEN /\ decided = {Len(calls)}
                       /\ ~Has(dev.log, "std")
                       /\ result = calls[Len(calls)][3]
                       /\ after[Len(calls)] = calls[Len(calls)]
                       /\ after[Len(calls) + 1][1] = "result"
                  ELSE /\ {calls[k][2] : k \in 1..(Len(calls) - 1)}
                             = {i \in Occupied(cb_list) : Matches(cb_list, bm, i)}
                       /\ calls[Len(calls)][1] = "std"

\* the table is full; the first callback has deferred and the second has
\* handled the request: the standard-request handler is not called
C20_Witness ==
    LET calls == SelectSeq(dev.log, LAMBDA e : e[1] \in {"cb", "std"})
    IN  /\ Occupied(dev.user_control_callback) = 1..MAX_USER_CONTROL_CALLBACK
        /\ Len(calls) = 2
        /\ calls[1] = <<"cb", 1, QUSB_REQ_NEXT_CALLBACK>>
        /\ calls[2] = <<"cb", 2, QUSB_REQ_HANDLED>>
        /\ Last(dev.log, "result")[2] = QUSB_REQ_HANDLED

=============================================================================
